---- MODULE Spec2Model ----
(***************************************************************************)
(* evocaition: one completion request against an OpenAI compatible API and *)
(* the decoding of its response (src/src/api.rs, src/src/main.rs).         *)
(*                                                                         *)
(* Text is a sequence of characters and a character is a string: an ASCII  *)
(* character is the one-letter string of itself, "U+00E9" is the two-byte  *)
(* character e-acute and "U+FFFD" the replacement character.  The wire     *)
(* carries bytes: an ASCII character is one byte, "U+00E9" is the bytes    *)
(* "C3" "A9".                                                              *)
(***************************************************************************)
EXTENDS Integers, Sequences, FiniteSets, TLC

(***************************************************************************)
(* str: trim, trim_start, find, strip_prefix, String::from_utf8_lossy      *)
(***************************************************************************)

\* char::is_whitespace, restricted to the characters of the model's alphabet;
\* these four are also the whitespace of JSON.
WhiteSpace == {" ", "\n", "\r", "\t"}

RECURSIVE SkipWs(_, _)
\* the first index >= i of s that holds no whitespace (Len(s) + 1 if none)
SkipWs(s, i) ==
    IF i <= Len(s) /\ s[i] \in WhiteSpace THEN SkipWs(s, i + 1) ELSE i

RECURSIVE SkipWsBack(_, _)
\* the last index <= i of s that holds no whitespace (0 if none)
SkipWsBack(s, i) ==
    IF i >= 1 /\ s[i] \in WhiteSpace THEN SkipWsBack(s, i - 1) ELSE i

\* str::trim_start
TrimStart(s) == SubSeq(s, SkipWs(s, 1), Len(s))

\* str::trim
Trim(s) == SubSeq(s, SkipWs(s, 1), SkipWsBack(s, Len(s)))

\* str::find(char): the index of the first c in s, 0 for None
Find(s, c) ==
    LET at == {i \in 1..Len(s) : s[i] = c}
    IN  IF at = {} THEN 0 ELSE CHOOSE i \in at : \A j \in at : i <= j

\* str::strip_prefix: Some(rest) or None
StripPrefix(s, p) ==
    IF Len(s) >= Len(p) /\ SubSeq(s, 1, Len(p)) = p
    THEN [some |-> TRUE, rest |-> SubSeq(s, Len(p) + 1, Len(s))]
    ELSE [some |-> FALSE, rest |-> <<>>]

\* the bytes of the one multi-byte character of the alphabet
LeadByte == "C3"
ContByte == "A9"

\* the character that the byte at i of b starts: a complete character decodes
\* to itself, every byte of an incomplete one to the replacement character
DecodedAt(b, i) ==
    IF b[i] = LeadByte
    THEN IF i < Len(b) /\ b[i + 1] = ContByte THEN "U+00E9" ELSE "U+FFFD"
    ELSE IF b[i] = ContByte THEN "U+FFFD"
    ELSE b[i]

\* String::from_utf8_lossy
FromUtf8Lossy(b) ==
    IF \A i \in 1..Len(b) : b[i] \notin {LeadByte, ContByte}
    THEN b
    ELSE LET starts == {i \in 1..Len(b) :
                           ~(b[i] = ContByte /\ i > 1 /\ b[i - 1] = LeadByte)}
             Nth(j) == CHOOSE i \in starts : Cardinality({k \in starts : k <= i}) = j
         IN  [j \in 1..Cardinality(starts) |-> DecodedAt(b, Nth(j))]

(***************************************************************************)
(* serde_json::from_str to a JSON value.  The subset of JSON the model     *)
(* reads: objects, arrays, strings without escapes, integers, null, true,  *)
(* false.  A value is a record tagged by t.                                *)
(***************************************************************************)

JNull == [t |-> "null"]
JFail == [ok |-> FALSE, v |-> JNull, i |-> 0]
JOk(v, i) == [ok |-> TRUE, v |-> v, i |-> i]

DigitChars == <<"0", "1", "2", "3", "4", "5", "6", "7", "8", "9">>
IsDigit(c) == \E k \in 1..10 : DigitChars[k] = c
DigitVal(c) == (CHOOSE k \in 1..10 : DigitChars[k] = c) - 1

RECURSIVE ScanString(_, _)
\* the index of the quote that closes the string whose text starts at i; 0 when
\* the string is not closed or holds a raw control character
ScanString(s, i) ==
    IF i > Len(s) THEN 0
    ELSE IF s[i] = "\"" THEN i
    ELSE IF s[i] \in {"\n", "\r", "\t"} THEN 0
    ELSE ScanString(s, i + 1)

\* s[i] is the opening quote
ParseString(s, i) ==
    LET j == ScanString(s, i + 1)
    IN  IF j = 0 THEN JFail
        ELSE JOk([t |-> "str", s |-> SubSeq(s, i + 1, j - 1)], j + 1)

RECURSIVE ScanDigits(_, _, _)
ScanDigits(s, i, acc) ==
    IF i <= Len(s) /\ IsDigit(s[i])
    THEN ScanDigits(s, i + 1, 10 * acc + DigitVal(s[i]))
    ELSE [n |-> acc, i |-> i]

\* s[i] is a digit: 0, or a digit from 1 to 9 followed by digits
ParseNat(s, i) ==
    IF s[i] = "0" THEN [n |-> 0, i |-> i + 1] ELSE ScanDigits(s, i, 0)

ParseNumber(s, i) ==
    IF s[i] = "-"
    THEN IF i < Len(s) /\ IsDigit(s[i + 1])
         THEN LET d == ParseNat(s, i + 1) IN JOk([t |-> "num", n |-> 0 - d.n], d.i)
         ELSE JFail
    ELSE LET d == ParseNat(s, i) IN JOk([t |-> "num", n |-> d.n], d.i)

ParseLiteral(s, i, word, v) ==
    IF i + Len(word) - 1 <= Len(s) /\ SubSeq(s, i, i + Len(word) - 1) = word
    THEN JOk(v, i + Len(word))
    ELSE JFail

RECURSIVE ParseValue(_, _)
RECURSIVE ParseMembers(_, _, _)
RECURSIVE ParseElements(_, _, _)

\* the members of an object from its first key on; acc holds those read so far
ParseMembers(s, i0, acc) ==
    LET i == SkipWs(s, i0)
    IN  IF i > Len(s) \/ s[i] # "\"" THEN JFail
        ELSE LET k == ParseString(s, i)
                 c == SkipWs(s, k.i)
             IN  IF ~k.ok \/ c > Len(s) \/ s[c] # ":" THEN JFail
                 ELSE LET x == ParseValue(s, c + 1)
                          e == SkipWs(s, x.i)
                          m == Append(acc, [k |-> k.v.s, v |-> x.v])
                      IN  IF ~x.ok \/ e > Len(s) THEN JFail
                          ELSE IF s[e] = "," THEN ParseMembers(s, e + 1, m)
                          ELSE IF s[e] = "}" THEN JOk([t |-> "obj", m |-> m], e + 1)
                          ELSE JFail

\* the elements of an array from its first element on
ParseElements(s, i0, acc) ==
    LET x == ParseValue(s, i0)
        e == SkipWs(s, x.i)
        a == Append(acc, x.v)
    IN  IF ~x.ok \/ e > Len(s) THEN JFail
        ELSE IF s[e] = "," THEN ParseElements(s, e + 1, a)
        ELSE IF s[e] = "]" THEN JOk([t |-> "arr", a |-> a], e + 1)
        ELSE JFail

ParseValue(s, i0) ==
    LET i == SkipWs(s, i0)
    IN  IF i > Len(s) THEN JFail
        ELSE IF s[i] = "{"
             THEN LET j == SkipWs(s, i + 1)
                  IN  IF j <= Len(s) /\ s[j] = "}"
                      THEN JOk([t |-> "obj", m |-> <<>>], j + 1)
                      ELSE ParseMembers(s, j, <<>>)
        ELSE IF s[i] = "["
             THEN LET j == SkipWs(s, i + 1)
                  IN  IF j <= Len(s) /\ s[j] = "]"
                      THEN JOk([t |-> "arr", a |-> <<>>], j + 1)
                      ELSE ParseElements(s, j, <<>>)
        ELSE IF s[i] = "\"" THEN ParseString(s, i)
        ELSE IF s[i] = "-" \/ IsDigit(s[i]) THEN ParseNumber(s, i)
        ELSE IF s[i] = "n" THEN ParseLiteral(s, i, <<"n", "u", "l", "l">>, JNull)
        ELSE IF s[i] = "t"
             THEN ParseLiteral(s, i, <<"t", "r", "u", "e">>, [t |-> "bool", b |-> TRUE])
        ELSE IF s[i] = "f"
             THEN ParseLiteral(s, i, <<"f", "a", "l", "s", "e">>, [t |-> "bool", b |-> FALSE])
        ELSE JFail

\* one JSON value and nothing but whitespace after it
FromStr(s) ==
    LET r == ParseValue(s, 1)
    IN  IF r.ok /\ SkipWs(s, r.i) > Len(s)
        THEN [ok |-> TRUE, v |-> r.v]
        ELSE [ok |-> FALSE, v |-> JNull]

(***************************************************************************)
(* #[derive(Deserialize)]: the response types                              *)
(***************************************************************************)

\* the names of the members of the response types
Key ==
    [id |-> <<"i", "d">>,
     provider |-> <<"p", "r", "o", "v", "i", "d", "e", "r">>,
     model |-> <<"m", "o", "d", "e", "l">>,
     object |-> <<"o", "b", "j", "e", "c", "t">>,
     created |-> <<"c", "r", "e", "a", "t", "e", "d">>,
     choices |-> <<"c", "h", "o", "i", "c", "e", "s">>,
     system_fingerprint |->
         <<"s", "y", "s", "t", "e", "m", "_", "f", "i", "n", "g", "e", "r", "p", "r", "i", "n", "t">>,
     usage |-> <<"u", "s", "a", "g", "e">>,
     finish_reason |-> <<"f", "i", "n", "i", "s", "h", "_", "r", "e", "a", "s", "o", "n">>,
     text |-> <<"t", "e", "x", "t">>,
     error |-> <<"e", "r", "r", "o", "r">>,
     message |-> <<"m", "e", "s", "s", "a", "g", "e">>,
     delta |-> <<"d", "e", "l", "t", "a">>,
     content |-> <<"c", "o", "n", "t", "e", "n", "t">>,
     role |-> <<"r", "o", "l", "e">>,
     tool_calls |-> <<"t", "o", "o", "l", "_", "c", "a", "l", "l", "s">>,
     code |-> <<"c", "o", "d", "e">>,
     metadata |-> <<"m", "e", "t", "a", "d", "a", "t", "a">>,
     type |-> <<"t", "y", "p", "e">>,
     function |-> <<"f", "u", "n", "c", "t", "i", "o", "n">>,
     name |-> <<"n", "a", "m", "e">>,
     arguments |-> <<"a", "r", "g", "u", "m", "e", "n", "t", "s">>,
     prompt_tokens |-> <<"p", "r", "o", "m", "p", "t", "_", "t", "o", "k", "e", "n", "s">>,
     completion_tokens |->
         <<"c", "o", "m", "p", "l", "e", "t", "i", "o", "n", "_", "t", "o", "k", "e", "n", "s">>,
     total_tokens |-> <<"t", "o", "t", "a", "l", "_", "t", "o", "k", "e", "n", "s">>]

\* A derived struct reads a JSON object by field name, or a JSON array holding
\* every field by position.
StructMembers(v, fields) ==
    IF v.t = "obj" THEN [ok |-> TRUE, m |-> v.m]
    ELSE IF v.t = "arr" /\ Len(v.a) = Len(fields)
         THEN [ok |-> TRUE, m |-> [i \in 1..Len(fields) |-> [k |-> fields[i], v |-> v.a[i]]]]
    ELSE [ok |-> FALSE, m |-> <<>>]

Count(m, k) == Cardinality({i \in DOMAIN m : m[i].k = k})
Field(m, k) == m[CHOOSE i \in DOMAIN m : m[i].k = k].v

\* a field of type T: present once (a repeated field is an error) and a T
Required(m, k, IsT(_)) == Count(m, k) = 1 /\ IsT(Field(m, k))

\* a field of type Option<T>: absent, null, or a T
Optional(m, k, IsT(_)) ==
    \/ Count(m, k) = 0
    \/ Count(m, k) = 1 /\ (Field(m, k).t = "null" \/ IsT(Field(m, k)))

\* the value of an Option<String> field that deserialized
OptionString(m, k) ==
    IF Count(m, k) = 0 \/ Field(m, k).t = "null"
    THEN [some |-> FALSE, s |-> <<>>]
    ELSE [some |-> TRUE, s |-> Field(m, k).s]

IsString(v) == v.t = "str"
IsU64(v) == v.t = "num" /\ v.n >= 0
\* every integer the model's documents hold is within the range of i32
IsI32(v) == v.t = "num"
IsValue(v) == TRUE

\* the fields of the derived structs, in the order of their declaration
Fields ==
    [ErrorResponse |-> <<Key.code, Key.message, Key.metadata>>,
     FunctionCall |-> <<Key.name, Key.arguments>>,
     ToolCall |-> <<Key.id, Key.type, Key.function>>,
     Usage |-> <<Key.prompt_tokens, Key.completion_tokens, Key.total_tokens>>,
     Message |-> <<Key.content, Key.role, Key.tool_calls>>,
     NonChatChoice |-> <<Key.finish_reason, Key.text, Key.error>>,
     NonStreamingChoice |-> <<Key.finish_reason, Key.message, Key.error>>,
     StreamingChoice |-> <<Key.finish_reason, Key.delta, Key.error>>,
     Response |->
         <<Key.id, Key.provider, Key.model, Key.object, Key.created, Key.choices,
           Key.system_fingerprint, Key.usage>>,
     ErrorResponseContainer |-> <<Key.error>>]

IsErrorResponse(v) ==
    LET s == StructMembers(v, Fields.ErrorResponse)
    IN  /\ s.ok
        /\ Required(s.m, Key.code, IsI32)
        /\ Required(s.m, Key.message, IsString)
        /\ Optional(s.m, Key.metadata, IsValue)

IsFunctionCall(v) ==
    LET s == StructMembers(v, Fields.FunctionCall)
    IN  /\ s.ok
        /\ Required(s.m, Key.name, IsString)
        /\ Required(s.m, Key.arguments, IsValue)

IsToolCall(v) ==
    LET s == StructMembers(v, Fields.ToolCall)
    IN  /\ s.ok
        /\ Required(s.m, Key.id, IsString)
        /\ Required(s.m, Key.type, IsString)
        /\ Required(s.m, Key.function, IsFunctionCall)

IsToolCalls(v) == v.t = "arr" /\ \A i \in DOMAIN v.a : IsToolCall(v.a[i])

IsUsage(v) ==
    LET s == StructMembers(v, Fields.Usage)
    IN  /\ s.ok
        /\ Required(s.m, Key.prompt_tokens, IsU64)
        /\ Required(s.m, Key.completion_tokens, IsU64)
        /\ Required(s.m, Key.total_tokens, IsU64)

IsMessage(v) ==
    LET s == StructMembers(v, Fields.Message)
    IN  /\ s.ok
        /\ Optional(s.m, Key.content, IsString)
        /\ Required(s.m, Key.role, IsString)
        /\ Optional(s.m, Key.tool_calls, IsToolCalls)

DeltaFields == Fields.Message
IsDelta(v) ==
    LET s == StructMembers(v, DeltaFields)
    IN  /\ s.ok
        /\ Optional(s.m, Key.content, IsString)
        /\ Optional(s.m, Key.role, IsString)
        /\ Optional(s.m, Key.tool_calls, IsToolCalls)

IsNonChatChoice(v) ==
    LET s == StructMembers(v, Fields.NonChatChoice)
    IN  /\ s.ok
        /\ Optional(s.m, Key.finish_reason, IsString)
        /\ Required(s.m, Key.text, IsString)
        /\ Optional(s.m, Key.error, IsErrorResponse)

IsNonStreamingChoice(v) ==
    LET s == StructMembers(v, Fields.NonStreamingChoice)
    IN  /\ s.ok
        /\ Optional(s.m, Key.finish_reason, IsString)
        /\ Required(s.m, Key.message, IsMessage)
        /\ Optional(s.m, Key.error, IsErrorResponse)

IsStreamingChoice(v) ==
    LET s == StructMembers(v, Fields.StreamingChoice)
    IN  /\ s.ok
        /\ Optional(s.m, Key.finish_reason, IsString)
        /\ Required(s.m, Key.delta, IsDelta)
        /\ Optional(s.m, Key.error, IsErrorResponse)

\* the content of the message or delta object of a choice that deserialized
InnerContent(v, fields, key) ==
    LET inner == Field(StructMembers(v, fields).m, key)
    IN  OptionString(StructMembers(inner, Fields.Message).m, Key.content)

NoChoice == [ok |-> FALSE, kind |-> "None", some |-> FALSE, text |-> <<>>]

\* Choice with the variants tried in the order Streaming, NonStreaming, NonChat
ChoiceDeltaFirst(v) ==
    IF IsStreamingChoice(v)
    THEN LET c == InnerContent(v, Fields.StreamingChoice, Key.delta)
         IN  [ok |-> TRUE, kind |-> "Streaming", some |-> c.some, text |-> c.s]
    ELSE IF IsNonStreamingChoice(v)
    THEN LET c == InnerContent(v, Fields.NonStreamingChoice, Key.message)
         IN  [ok |-> TRUE, kind |-> "NonStreaming", some |-> c.some, text |-> c.s]
    ELSE IF IsNonChatChoice(v)
    THEN [ok |-> TRUE, kind |-> "NonChat", some |-> TRUE,
          text |-> Field(StructMembers(v, Fields.NonChatChoice).m, Key.text).s]
    ELSE NoChoice

\* #[serde(untagged)] enum Choice: the variants are tried in the order they are
\* declared and the first that deserializes is the value.  some/text is the
\* variant's text: NonChat's text, or the inner object's Option content.
Choice(v) ==
    IF IsNonChatChoice(v)
    THEN [ok |-> TRUE, kind |-> "NonChat", some |-> TRUE,
          text |-> Field(StructMembers(v, Fields.NonChatChoice).m, Key.text).s]
    ELSE IF IsNonStreamingChoice(v)
    THEN LET c == InnerContent(v, Fields.NonStreamingChoice, Key.message)
         IN  [ok |-> TRUE, kind |-> "NonStreaming", some |-> c.some, text |-> c.s]
    ELSE IF IsStreamingChoice(v)
    THEN LET c == InnerContent(v, Fields.StreamingChoice, Key.delta)
         IN  [ok |-> TRUE, kind |-> "Streaming", some |-> c.some, text |-> c.s]
    ELSE NoChoice

\* the choices of a Vec<Choice> that deserialized
Choices(a) == [i \in DOMAIN a |-> Choice(a[i])]

IsChoices(v) == v.t = "arr" /\ \A i \in DOMAIN v.a : Choice(v.a[i]).ok

IsResponse(v) ==
    LET s == StructMembers(v, Fields.Response)
    IN  /\ s.ok
        /\ Optional(s.m, Key.id, IsString)
        /\ Optional(s.m, Key.provider, IsString)
        /\ Required(s.m, Key.model, IsString)
        /\ Required(s.m, Key.object, IsString)
        /\ Required(s.m, Key.created, IsU64)
        /\ Required(s.m, Key.choices, IsChoices)
        /\ Optional(s.m, Key.system_fingerprint, IsString)
        /\ Optional(s.m, Key.usage, IsUsage)

\* the Response of a parsed JSON text
ResponseOf(j) ==
    IF j.ok /\ IsResponse(j.v)
    THEN [ok |-> TRUE,
          choices |-> Choices(Field(StructMembers(j.v, Fields.Response).m, Key.choices).a)]
    ELSE [ok |-> FALSE, choices |-> <<>>]

\* serde_json::from_str::<Response>: Ok(response) with its choices, or Err
ResponseFromStr(s) == ResponseOf(FromStr(s))

\* the code and message of an ErrorResponse that deserialized
ErrorOf(e) == [ok |-> TRUE, code |-> Field(e, Key.code).n, message |-> Field(e, Key.message).s]

\* the ErrorResponseContainer of a parsed JSON text
ErrorContainerOf(j, c) ==
    IF j.ok /\ c.ok /\ Required(c.m, Key.error, IsErrorResponse)
    THEN ErrorOf(StructMembers(Field(c.m, Key.error), Fields.ErrorResponse).m)
    ELSE [ok |-> FALSE, code |-> 0, message |-> <<>>]

ErrorContainerOfJson(j) ==
    ErrorContainerOf(j, StructMembers(j.v, Fields.ErrorResponseContainer))

\* serde_json::from_str::<ErrorResponseContainer>: Ok with the error's code
\* and message, or Err
ErrorContainerFromStr(s) == ErrorContainerOfJson(FromStr(s))

(***************************************************************************)
(* build_request_body: the image reference, base64, json!                  *)
(***************************************************************************)

\* an Option<T>
None == [some |-> FALSE, v |-> <<>>]
Some(x) == [some |-> TRUE, v |-> x]

Letters ==
    {"a", "b", "c", "d", "e", "f", "g", "h", "i", "j", "k", "l", "m", "n", "o", "p", "q", "r",
     "s", "t", "u", "v", "w", "x", "y", "z",
     "A", "B", "C", "D", "E", "F", "G", "H", "I", "J", "K", "L", "M", "N", "O", "P", "Q", "R",
     "S", "T", "U", "V", "W", "X", "Y", "Z"}

\* the end of the scheme of s: the index of the first ":" when a letter and
\* then letters, digits, "+", "-" and "." precede it; 0 when s has no scheme
SchemeEnd(s) ==
    LET colon == Find(s, ":")
    IN  IF /\ colon > 1
           /\ s[1] \in Letters
           /\ \A i \in 2..(colon - 1) : s[i] \in Letters \/ IsDigit(s[i]) \/ s[i] \in {"+", "-", "."}
        THEN colon
        ELSE 0

\* the schemes whose URL needs a host
SpecialSchemes ==
    {<<"h", "t", "t", "p">>, <<"h", "t", "t", "p", "s">>, <<"w", "s">>, <<"w", "s", "s">>,
     <<"f", "t", "p">>}

RECURSIVE SkipSlashes(_, _)
SkipSlashes(s, i) ==
    IF i <= Len(s) /\ s[i] \in {"/", "\\"} THEN SkipSlashes(s, i + 1) ELSE i

\* Url::parse(s).is_ok(): without a base a reference needs a scheme, and with
\* one of the special schemes a host that is not empty.  The model's
\* references are lower-case ASCII without whitespace.
UrlParses(s) ==
    /\ SchemeEnd(s) > 0
    /\ SubSeq(s, 1, SchemeEnd(s) - 1) \in SpecialSchemes
           => LET h == SkipSlashes(s, SchemeEnd(s) + 1)
              IN  h <= Len(s) /\ s[h] \notin {"/", "\\", "?", "#", ":"}

\* image_path.split('.').last().unwrap_or_default(): the text after the last
\* ".", the whole path when it has none
SplitLast(path) ==
    LET dots == {i \in 1..Len(path) : path[i] = "."}
    IN  IF dots = {} THEN path
        ELSE SubSeq(path, (CHOOSE i \in dots : \A j \in dots : j <= i) + 1, Len(path))

\* the string literals of build_request_body
Literal ==
    [Jpg |-> <<"j", "p", "g">>,
     Jpeg |-> <<"j", "p", "e", "g">>,
     Png |-> <<"p", "n", "g">>,
     Webp |-> <<"w", "e", "b", "p">>,
     ImageJpeg |-> <<"i", "m", "a", "g", "e", "/", "j", "p", "e", "g">>,
     ImagePng |-> <<"i", "m", "a", "g", "e", "/", "p", "n", "g">>,
     ImageWebp |-> <<"i", "m", "a", "g", "e", "/", "w", "e", "b", "p">>,
     DataScheme |-> <<"d", "a", "t", "a", ":">>,
     Base64Mark |-> <<";", "b", "a", "s", "e", "6", "4", ",">>,
     ImageUrlType |-> <<"i", "m", "a", "g", "e", "_", "u", "r", "l">>,
     UserRole |-> <<"u", "s", "e", "r">>]

\* the MIME type for the text split off the path
MimeType(ext) ==
    IF ext = Literal.Jpg \/ ext = Literal.Jpeg THEN Some(Literal.ImageJpeg)
    ELSE IF ext = Literal.Png THEN Some(Literal.ImagePng)
    ELSE IF ext = Literal.Webp THEN Some(Literal.ImageWebp)
    ELSE None

\* BASE64_STANDARD: the alphabet, and "=" to pad the last group
Base64Alphabet ==
    <<"A", "B", "C", "D", "E", "F", "G", "H", "I", "J", "K", "L", "M", "N", "O", "P", "Q", "R",
      "S", "T", "U", "V", "W", "X", "Y", "Z", "a", "b", "c", "d", "e", "f", "g", "h", "i", "j",
      "k", "l", "m", "n", "o", "p", "q", "r", "s", "t", "u", "v", "w", "x", "y", "z", "0", "1",
      "2", "3", "4", "5", "6", "7", "8", "9", "+", "/">>

Sextet(n) == Base64Alphabet[n + 1]

RECURSIVE Base64Encode(_)
\* BASE64_STANDARD.encode: three bytes give four characters, and the one or
\* two bytes left at the end are padded
Base64Encode(b) ==
    IF b = <<>> THEN <<>>
    ELSE IF Len(b) = 1
         THEN <<Sextet(b[1] \div 4), Sextet((b[1] % 4) * 16), "=", "=">>
    ELSE IF Len(b) = 2
         THEN <<Sextet(b[1] \div 4), Sextet((b[1] % 4) * 16 + b[2] \div 16),
                Sextet((b[2] % 16) * 4), "=">>
    ELSE <<Sextet(b[1] \div 4), Sextet((b[1] % 4) * 16 + b[2] \div 16),
           Sextet((b[2] % 16) * 4 + b[3] \div 64), Sextet(b[3] % 64)>>
             \o Base64Encode(SubSeq(b, 4, Len(b)))

\* format!("data:{};base64,{}", mime_type, BASE64_STANDARD.encode(&image_data))
DataUri(mime, bytes) == Literal.DataScheme \o mime \o Literal.Base64Mark \o Base64Encode(bytes)

\* the names of the members of the request body
BodyKey ==
    [prompt |-> <<"p", "r", "o", "m", "p", "t">>,
     stream |-> <<"s", "t", "r", "e", "a", "m">>,
     messages |-> <<"m", "e", "s", "s", "a", "g", "e", "s">>,
     image_url |-> <<"i", "m", "a", "g", "e", "_", "u", "r", "l">>,
     url |-> <<"u", "r", "l">>,
     max_tokens |-> <<"m", "a", "x", "_", "t", "o", "k", "e", "n", "s">>,
     temperature |-> <<"t", "e", "m", "p", "e", "r", "a", "t", "u", "r", "e">>,
     top_k |-> <<"t", "o", "p", "_", "k">>,
     top_p |-> <<"t", "o", "p", "_", "p">>,
     min_p |-> <<"m", "i", "n", "_", "p">>,
     repetition_penalty |->
         <<"r", "e", "p", "e", "t", "i", "t", "i", "o", "n", "_", "p", "e", "n", "a", "l", "t", "y">>,
     seed |-> <<"s", "e", "e", "d">>]

\* json!: strings, booleans, integers, arrays and objects
JStr(s) == [t |-> "str", s |-> s]
JBool(b) == [t |-> "bool", b |-> b]
JNum(n) == [t |-> "num", n |-> n]
JArr(a) == [t |-> "arr", a |-> a]
JObj(m) == [t |-> "obj", m |-> m]

\* json! of an f32, a record [finite, n]: a finite number is that number, and
\* NaN and the infinities, which JSON cannot write, become null
JF32(x) == IF x.finite THEN JNum(x.n) ELSE JNull

\* body[k] = v: the member k is replaced, or added when the object has none
SetKey(obj, k, v) ==
    IF \E i \in DOMAIN obj.m : obj.m[i].k = k
    THEN JObj([i \in DOMAIN obj.m |-> IF obj.m[i].k = k THEN [k |-> k, v |-> v] ELSE obj.m[i]])
    ELSE JObj(Append(obj.m, [k |-> k, v |-> v]))

\* the content of the image attachment for a reference and the outcome fs
\* of std::fs::read on it: a URL as it is, a data URI for a path that ends in
\* a known extension, and the empty string for any other path.  read tells
\* that the file was read, and panic that the read failed (expect).
ImageContent(image_path, fs) ==
    IF UrlParses(image_path)
    THEN [panic |-> FALSE, read |-> FALSE, url |-> image_path]
    ELSE IF MimeType(SplitLast(image_path)).some
         THEN IF fs.ok
              THEN [panic |-> FALSE, read |-> TRUE,
                    url |-> DataUri(MimeType(SplitLast(image_path)).v, fs.bytes)]
              ELSE [panic |-> TRUE, read |-> TRUE, url |-> <<>>]
    ELSE [panic |-> FALSE, read |-> FALSE, url |-> <<>>]

\* the message that carries the image
ImageMessage(url) ==
    JObj(<<[k |-> Key.role, v |-> JStr(Literal.UserRole)],
           [k |-> Key.content,
            v |-> JArr(<<JObj(<<[k |-> Key.type, v |-> JStr(Literal.ImageUrlType)],
                                [k |-> BodyKey.image_url,
                                 v |-> JObj(<<[k |-> BodyKey.url, v |-> JStr(url)]>>)]>>)>>)]>>)

\* the message that carries the prompt
TextMessage(text) ==
    JObj(<<[k |-> Key.role, v |-> JStr(Literal.UserRole)], [k |-> Key.content, v |-> JStr(text)]>>)

\* messages with the image after the text
MessagesImageLast(cfg, text, fs) ==
    IF cfg.image_file.some
    THEN <<TextMessage(text), ImageMessage(ImageContent(cfg.image_file.v, fs).url)>>
    ELSE <<TextMessage(text)>>

\* the messages of a chat request
Messages(cfg, text, fs) ==
    IF cfg.image_file.some
    THEN <<ImageMessage(ImageContent(cfg.image_file.v, fs).url), TextMessage(text)>>
    ELSE <<TextMessage(text)>>

\* the body before the optional parameters
BaseBody(cfg, streaming, text, fs) ==
    IF cfg.plain
    THEN JObj(<<[k |-> Key.model, v |-> JStr(cfg.model_id)],
                [k |-> BodyKey.prompt, v |-> JStr(text)],
                [k |-> BodyKey.stream, v |-> JBool(streaming)]>>)
    ELSE JObj(<<[k |-> Key.model, v |-> JStr(cfg.model_id)],
                [k |-> BodyKey.messages, v |-> JArr(Messages(cfg, text, fs))],
                [k |-> BodyKey.stream, v |-> JBool(streaming)]>>)

\* if let Some(x) = option { body[k] = json!(x) }, given json!(x) as v
SetOptional(obj, k, some, v) == IF some THEN SetKey(obj, k, v) ELSE obj

\* the optional parameters, added in the order of the code
WithOptional(obj, cfg) ==
    LET b1 == SetOptional(obj, BodyKey.max_tokens, cfg.max_tokens.some, JNum(cfg.max_tokens.v))
        b2 == SetOptional(b1, BodyKey.temperature, cfg.temp.some, JF32(cfg.temp.v))
        b3 == SetOptional(b2, BodyKey.top_k, cfg.top_k.some, JNum(cfg.top_k.v))
        b4 == SetOptional(b3, BodyKey.top_p, cfg.top_p.some, JF32(cfg.top_p.v))
        b5 == SetOptional(b4, BodyKey.min_p, cfg.min_p.some, JF32(cfg.min_p.v))
        b6 == SetOptional(b5, BodyKey.repetition_penalty, cfg.rep_pen.some, JF32(cfg.rep_pen.v))
    IN  SetOptional(b6, BodyKey.seed, cfg.seed.some, JNum(cfg.seed.v))

\* whether build_request_body reads the image file, and whether it panics
ReadsFile(cfg, fs) ==
    ~cfg.plain /\ cfg.image_file.some /\ ImageContent(cfg.image_file.v, fs).read

BuildPanic(cfg, fs) ==
    ~cfg.plain /\ cfg.image_file.some /\ ImageContent(cfg.image_file.v, fs).panic

\* build_request_body, when it returns
BuildRequestBody(cfg, streaming, text, fs) ==
    WithOptional(BaseBody(cfg, streaming, text, fs), cfg)
(***************************************************************************)
(* The responses the transport may hand over                               *)
(***************************************************************************)

\* the bytes every response document of the model starts with
\*   {"model":"m","object":"o","created":0,"choices":[
DocHead ==
    <<"{", "\"", "m", "o", "d", "e", "l", "\"", ":", "\"", "m", "\"", ",", "\"", "o", "b", "j",
      "e", "c", "t", "\"", ":", "\"", "o", "\"", ",", "\"", "c", "r", "e", "a", "t", "e", "d",
      "\"", ":", "0", ",", "\"", "c", "h", "o", "i", "c", "e", "s", "\"", ":", "[">>

\* the choice objects of the model's documents, as they are on the wire
ChoiceText ==
    [\* a streaming chat document: one delta choice
     \*   {"delta":{"content":"Hello"}}
     Hello |->
         <<"{", "\"", "d", "e", "l", "t", "a", "\"", ":", "{", "\"", "c", "o", "n", "t", "e", "n",
           "t", "\"", ":", "\"", "H", "e", "l", "l", "o", "\"", "}", "}">>,
     \* a plain completion choice
     \*   {"text":"a"}
     A |-> <<"{", "\"", "t", "e", "x", "t", "\"", ":", "\"", "a", "\"", "}">>,
     \* a plain completion choice
     \*   {"text":"b"}
     B |-> <<"{", "\"", "t", "e", "x", "t", "\"", ":", "\"", "b", "\"", "}">>,
     \* a plain choice with empty text, a delta without content, a delta with content
     \*   {"text":""},{"delta":{}},{"delta":{"content":"b"}}
     Deltas |->
         <<"{", "\"", "t", "e", "x", "t", "\"", ":", "\"", "\"", "}", ",", "{", "\"", "d", "e", "l",
           "t", "a", "\"", ":", "{", "}", "}", ",", "{", "\"", "d", "e", "l", "t", "a", "\"", ":",
           "{", "\"", "c", "o", "n", "t", "e", "n", "t", "\"", ":", "\"", "b", "\"", "}", "}">>,
     \* a full message without content, a full message with content
     \*   {"message":{"role":"r"}},{"message":{"content":"c","role":"r"}}
     Messages |->
         <<"{", "\"", "m", "e", "s", "s", "a", "g", "e", "\"", ":", "{", "\"", "r", "o", "l", "e",
           "\"", ":", "\"", "r", "\"", "}", "}", ",", "{", "\"", "m", "e", "s", "s", "a", "g", "e",
           "\"", ":", "{", "\"", "c", "o", "n", "t", "e", "n", "t", "\"", ":", "\"", "c", "\"", ",",
           "\"", "r", "o", "l", "e", "\"", ":", "\"", "r", "\"", "}", "}">>,
     \* a full message choice without content
     \*   {"message":{"role":"r"}}
     NoContent |->
         <<"{", "\"", "m", "e", "s", "s", "a", "g", "e", "\"", ":", "{", "\"", "r", "o", "l", "e",
           "\"", ":", "\"", "r", "\"", "}", "}">>,
     \* objects that hold the members of more than one shape: text and delta, a full
     \* message and delta, a message without role and delta
     \*   {"text":"t","delta":{"content":"d"}},{"message":{"role":"r","content":"c"},"delta":{"content":"d"}},{"message":{"content":"c"},"delta":{"content":"e"}}
     Overlap |->
         <<"{", "\"", "t", "e", "x", "t", "\"", ":", "\"", "t", "\"", ",", "\"", "d", "e", "l", "t",
           "a", "\"", ":", "{", "\"", "c", "o", "n", "t", "e", "n", "t", "\"", ":", "\"", "d", "\"",
           "}", "}", ",", "{", "\"", "m", "e", "s", "s", "a", "g", "e", "\"", ":", "{", "\"", "r",
           "o", "l", "e", "\"", ":", "\"", "r", "\"", ",", "\"", "c", "o", "n", "t", "e", "n", "t",
           "\"", ":", "\"", "c", "\"", "}", ",", "\"", "d", "e", "l", "t", "a", "\"", ":", "{",
           "\"", "c", "o", "n", "t", "e", "n", "t", "\"", ":", "\"", "d", "\"", "}", "}", ",", "{",
           "\"", "m", "e", "s", "s", "a", "g", "e", "\"", ":", "{", "\"", "c", "o", "n", "t", "e",
           "n", "t", "\"", ":", "\"", "c", "\"", "}", ",", "\"", "d", "e", "l", "t", "a", "\"", ":",
           "{", "\"", "c", "o", "n", "t", "e", "n", "t", "\"", ":", "\"", "e", "\"", "}", "}">>,
     \* a choice object with none of text, message and delta
     \*   {"finish_reason":"stop"}
     NoShape |->
         <<"{", "\"", "f", "i", "n", "i", "s", "h", "_", "r", "e", "a", "s", "o", "n", "\"", ":",
           "\"", "s", "t", "o", "p", "\"", "}">>]

\* the document of the spec's round trip
\*   {"model":"m","object":"chat.completion","created":0,"choices":[{"message":{"content":"hello","role":"assistant"}}]}
DocMessage ==
    <<"{", "\"", "m", "o", "d", "e", "l", "\"", ":", "\"", "m", "\"", ",", "\"", "o", "b", "j",
      "e", "c", "t", "\"", ":", "\"", "c", "h", "a", "t", ".", "c", "o", "m", "p", "l", "e",
      "t", "i", "o", "n", "\"", ",", "\"", "c", "r", "e", "a", "t", "e", "d", "\"", ":", "0",
      ",", "\"", "c", "h", "o", "i", "c", "e", "s", "\"", ":", "[", "{", "\"", "m", "e", "s",
      "s", "a", "g", "e", "\"", ":", "{", "\"", "c", "o", "n", "t", "e", "n", "t", "\"", ":",
      "\"", "h", "e", "l", "l", "o", "\"", ",", "\"", "r", "o", "l", "e", "\"", ":", "\"", "a",
      "s", "s", "i", "s", "t", "a", "n", "t", "\"", "}", "}", "]", "}">>

\* an error envelope
\*   {"error":{"code":429,"message":"rate limited"}}
DocError ==
    <<"{", "\"", "e", "r", "r", "o", "r", "\"", ":", "{", "\"", "c", "o", "d", "e", "\"", ":",
      "4", "2", "9", ",", "\"", "m", "e", "s", "s", "a", "g", "e", "\"", ":", "\"", "r", "a",
      "t", "e", " ", "l", "i", "m", "i", "t", "e", "d", "\"", "}", "}">>

\* the tail of a response that also carries a top-level error member
\*   ],"error":{"code":1,"message":"x"}}
TailError ==
    <<"]", ",", "\"", "e", "r", "r", "o", "r", "\"", ":", "{", "\"", "c", "o", "d", "e", "\"",
      ":", "1", ",", "\"", "m", "e", "s", "s", "a", "g", "e", "\"", ":", "\"", "x", "\"", "}",
      "}">>

\* JSON that is neither a response nor an error envelope
\*   {"x":1}
DocOther ==
    <<"{", "\"", "x", "\"", ":", "1", "}">>

\* an SSE comment line
\*   : keep-alive
KeepAlive ==
    <<":", " ", "k", "e", "e", "p", "-", "a", "l", "i", "v", "e">>

\* a delta choice whose content is the two-byte character:
\*   {"delta":{"content":"<C3 A9>"}}
ChoiceAcute ==
    SubSeq(ChoiceText.Hello, 1, 21) \o <<LeadByte, ContByte>> \o <<"\"", "}", "}">>

Comma == <<",">>

\* a response document with the given choices
Doc(choices) == DocHead \o choices \o <<"]", "}">>

\* a response document that also has a top-level error member
DocBoth == DocHead \o ChoiceText.A \o TailError

\* a document cut short: a JSON syntax error
DocCut == SubSeq(DocError, 1, 9)

\* "data: ", the prefix of a payload line (api.rs:358)
DataPrefix == <<"d", "a", "t", "a", ":", " ">>

\* "[DONE]", the payload of the last line of a stream (api.rs:359)
DoneSentinel == <<"[", "D", "O", "N", "E", "]">>

\* "Unable to read response body" (api.rs:192)
Unreadable ==
    <<"U", "n", "a", "b", "l", "e", " ", "t", "o", " ", "r", "e", "a", "d", " ", "r", "e",
      "s", "p", "o", "n", "s", "e", " ", "b", "o", "d", "y">>

NewLine == <<"\n">>
DataLine(payload) == DataPrefix \o payload \o NewLine
DoneLine == DataLine(DoneSentinel)

\* the longest run of payload lines a stream of the model is made of
MaxLines == 2

RECURSIVE PayloadLines(_)
\* n payload lines, text "a" and text "b" in turn
PayloadLines(n) ==
    IF n = 0 THEN <<>>
    ELSE PayloadLines(n - 1) \o DataLine(Doc(IF n % 2 = 1 THEN ChoiceText.A ELSE ChoiceText.B))

RECURSIVE PayloadChoices(_)
\* n plain choices, text "a" and text "b" in turn
PayloadChoices(n) ==
    IF n = 0 THEN <<>>
    ELSE IF n = 1 THEN ChoiceText.A
    ELSE PayloadChoices(n - 1) \o Comma \o (IF n % 2 = 1 THEN ChoiceText.A ELSE ChoiceText.B)

\* the bodies of the streaming responses of the model
Stream ==
    [\* the spec's framing example: a delta line, then the sentinel
     Hello |-> DataLine(Doc(ChoiceText.Hello)) \o DoneLine,
     \* a comment line and a blank line before a payload line
     KeepAlive |-> KeepAlive \o NewLine \o NewLine \o DataLine(Doc(ChoiceText.A)),
     \* one line with a choice of every shape
     Choices |-> DataLine(Doc(ChoiceText.Deltas \o Comma \o ChoiceText.Messages)),
     \* server-sent events: every payload line is followed by a blank line
     Events |-> DataLine(Doc(ChoiceText.A)) \o NewLine \o DataLine(Doc(ChoiceText.B)) \o NewLine,
     \* a stream that starts with a blank line
     BlankFirst |-> NewLine \o DataLine(Doc(ChoiceText.A)),
     \* an error envelope between two payload lines
     ApiError |-> DataLine(Doc(ChoiceText.A)) \o DataLine(DocError) \o DataLine(Doc(ChoiceText.B)),
     \* payloads that are neither a response nor an envelope
     Other |-> DataLine(Doc(ChoiceText.B)) \o DataLine(DocOther) \o DataLine(Doc(ChoiceText.A)),
     Cut |-> DataLine(DocCut),
     \* a response that also carries an error member, then no choices at all
     Both |-> DataLine(DocBoth) \o DataLine(Doc(<<>>)),
     \* payload after the sentinel
     DoneFirst |-> DoneLine \o DataLine(Doc(ChoiceText.A)),
     \* an error envelope after the sentinel
     DoneThenError |-> DataLine(Doc(ChoiceText.A)) \o DoneLine \o DataLine(DocError),
     \* choices that match more than one shape, then a choice that matches none
     Overlap |->
         DataLine(Doc(ChoiceText.Overlap)) \o DataLine(Doc(ChoiceText.A \o Comma \o ChoiceText.NoShape)),
     \* a two-byte character in the content
     Acute |-> DataLine(Doc(ChoiceAcute)),
     \* the last line lacks its newline
     NoNewline |-> DataLine(Doc(ChoiceText.B)) \o DataPrefix \o Doc(ChoiceText.A),
     \* indented lines ending in CR LF
     CrLf |-> <<" ", " ">> \o DataPrefix \o Doc(ChoiceText.A) \o <<"\r", "\n">>]

\* the bodies of streaming responses
Streams ==
    {PayloadLines(n) : n \in 1..MaxLines} \cup
    {Stream.Hello, Stream.KeepAlive, Stream.Choices, Stream.Events, Stream.BlankFirst,
     Stream.ApiError, Stream.Other, Stream.Cut, Stream.Both, Stream.DoneFirst, Stream.DoneThenError,
     Stream.Acute, Stream.NoNewline, Stream.CrLf, Stream.Overlap}

\* the bodies of non-streaming responses
Bodies ==
    {Doc(PayloadChoices(n)) : n \in 0..MaxLines} \cup
    {DocMessage, Doc(ChoiceText.NoContent), Doc(ChoiceText.Messages), Doc(ChoiceText.Deltas),
     Doc(ChoiceText.Hello), Doc(ChoiceText.Hello \o Comma \o ChoiceText.A), Doc(ChoiceAcute),
     DocError, DocBoth, DocOther, DocCut, Stream.Hello}

\* the HTTP statuses of the model; StatusCode::is_success is 200..299
Statuses == {200, 429, 500}
IsSuccess(s) == s >= 200 /\ s <= 299

(***************************************************************************)
(* The configurations, prompts and image files of the model                *)
(***************************************************************************)

ModelId == <<"m">>
PromptHi == <<"h", "i">>
StdinText == <<"y", "o">>

Ref ==
    [\* image references: paths with each known extension, with another one, with
     \* none, a file that is named like an extension, a file in a directory with a
     \* dot in its name, a URL, and a path with a drive letter
     Png |-> <<"a", ".", "p", "n", "g">>,
     Jpg |-> <<"a", ".", "j", "p", "g">>,
     Jpeg |-> <<"a", ".", "j", "p", "e", "g">>,
     Webp |-> <<"a", ".", "w", "e", "b", "p">>,
     Bmp |-> <<"a", ".", "b", "m", "p">>,
     NoExtension |-> <<"p", "h", "o", "t", "o">>,
     NamedPng |-> <<"p", "n", "g">>,
     InDotDir |-> <<"d", ".", "p", "n", "g", "/", "f">>,
     Url |-> <<"h", "t", "t", "p", "s", ":", "/", "/", "h", "/", "a", ".", "p", "n", "g">>,
     Drive |-> <<"c", ":", "a", ".", "p", "n", "g">>]

ImageRefs ==
    {Ref.Png, Ref.Jpg, Ref.Jpeg, Ref.Webp, Ref.Bmp, Ref.NoExtension, Ref.NamedPng, Ref.InDotDir, Ref.Url,
     Ref.Drive}

\* what std::fs::read gives for the image path: an error, or the bytes of the
\* file, zero to four of them
NoFile == [ok |-> FALSE, bytes |-> <<>>]
FileOf(bytes) == [ok |-> TRUE, bytes |-> bytes]
Files ==
    {NoFile, FileOf(<<>>), FileOf(<<77>>), FileOf(<<77, 97>>), FileOf(<<77, 97, 110>>),
     FileOf(<<255, 0, 16, 200>>)}

\* an f32: a finite number, or NaN or an infinity
Finite(n) == [finite |-> TRUE, n |-> n]
NotFinite == [finite |-> FALSE, n |-> 0]
F32s == {Finite(1), NotFinite}

\* Option<T> over a set of values
Option(S) == {None} \cup {Some(x) : x \in S}

\* a Config without sampling parameters
PlainConfig(plain, prompt, image_file) ==
    [plain |-> plain, model_id |-> ModelId, prompt |-> prompt, image_file |-> image_file,
     max_tokens |-> None, temp |-> None, top_k |-> None, top_p |-> None, min_p |-> None,
     rep_pen |-> None, seed |-> None]

\* the configurations that differ in the sampling parameters
SamplingConfigs ==
    [plain : BOOLEAN, model_id : {ModelId}, prompt : {Some(PromptHi)}, image_file : {None},
     max_tokens : Option({7}), temp : Option(F32s), top_k : Option({40}), top_p : Option(F32s),
     min_p : Option({Finite(0)}), rep_pen : Option({Finite(2)}), seed : Option({0 - 3})]

\* the configurations that differ in the image reference and the prompt
ImageConfigs ==
    {PlainConfig(plain, prompt, image) :
        plain \in BOOLEAN, prompt \in Option({PromptHi}), image \in Option(ImageRefs)}

\* the configurations of the runs that follow the response: the prompt comes
\* from stdin, or the image cannot be read
RunConfigs == {PlainConfig(FALSE, None, None), PlainConfig(FALSE, Some(PromptHi), Some(Ref.Png))}
(***************************************************************************)
(* The state of one run of the program                                     *)
(***************************************************************************)

VARIABLES
    config,     \* the Config, but for config.stream
    file,       \* what std::fs::read gives for the image path
    prompt,     \* do_completion's prompt
    requestBody, \* the request body, null until it is built
    sent,       \* history: send() was called
    stream,     \* config.stream
    status,     \* the HTTP status of the response
    wire,       \* the bytes of the response body
    pc,         \* where the program is: "prompt", "build", "start", "body", "await", "drain",
                \* "main", "exit"
    pos,        \* how many bytes of the body chunk() has handed over
    buffer,     \* process_streaming_response's buffer
    sink,       \* the calls of the callback so far, in order
    result,     \* what do_completion returned
    exit,       \* the exit status of the process, -1 while it runs
    docs,       \* history: the texts handed to serde_json::from_str::<Response>
    partial,    \* history: a chunk ended inside a line
    cut,        \* history: a chunk boundary fell inside a character
    readErr,    \* history: chunk() returned Err
    bodyErr     \* history: response.text() returned Err

\* the request: what the response's handling leaves alone
request == <<config, file, prompt, requestBody>>

vars ==
    <<request, sent, stream, status, wire, pc, pos, buffer, sink, result, exit, docs, partial,
      cut, readErr, bodyErr>>

\* the values of a Result<()>, and a panic; err names the message's format
Pending == [kind |-> "Pending", err |-> "", code |-> 0, text |-> <<>>]
Ok == [kind |-> "Ok", err |-> "", code |-> 0, text |-> <<>>]
Err(e, c, t) == [kind |-> "Err", err |-> e, code |-> c, text |-> t]
Panic == [kind |-> "Panic", err |-> "", code |-> 0, text |-> <<>>]

\* what every run starts with
Start ==
    /\ prompt = <<>>
    /\ requestBody = JNull
    /\ sent = FALSE
    /\ pc = "prompt"
    /\ pos = 0
    /\ buffer = <<>>
    /\ sink = <<>>
    /\ result = Pending
    /\ exit = 0 - 1
    /\ docs = <<>>
    /\ partial = FALSE
    /\ cut = FALSE
    /\ readErr = FALSE
    /\ bodyErr = FALSE

Init ==
    /\ config \in RunConfigs
    /\ file = NoFile
    /\ stream \in BOOLEAN
    /\ status \in Statuses
    /\ wire \in (IF stream THEN Streams ELSE Bodies)
    /\ Start

\* the runs that differ in the request, each with one response
BuildInit ==
    /\ \/ config \in SamplingConfigs /\ file = NoFile
       \/ config \in ImageConfigs /\ file \in Files
    /\ stream \in BOOLEAN
    /\ status \in {200, 500}
    /\ wire = DocOther
    /\ Start

(***************************************************************************)
(* do_completion: the prompt and the request body                          *)
(***************************************************************************)

\* Some(p) => p.clone()
PromptGiven ==
    /\ pc = "prompt"
    /\ config.prompt.some
    /\ prompt' = config.prompt.v
    /\ pc' = "build"
    /\ UNCHANGED <<config, file, requestBody, sent, stream, status, wire, pos, buffer, sink,
                   result, exit, docs, partial, cut, readErr, bodyErr>>

\* None => io::read_to_string(io::stdin())?, read
ReadStdin ==
    /\ pc = "prompt"
    /\ ~config.prompt.some
    /\ prompt' = StdinText
    /\ pc' = "build"
    /\ UNCHANGED <<config, file, requestBody, sent, stream, status, wire, pos, buffer, sink,
                   result, exit, docs, partial, cut, readErr, bodyErr>>

\* None => io::read_to_string(io::stdin())?, failed: the error goes to the caller
ReadStdinFails ==
    /\ pc = "prompt"
    /\ ~config.prompt.some
    /\ result' = Err("Stdin", 0, <<>>)
    /\ pc' = "main"
    /\ UNCHANGED <<request, sent, stream, status, wire, pos, buffer, sink, exit, docs, partial,
                   cut, readErr, bodyErr>>

\* a builder that takes the prompt away from its caller
BuildRequestTakesPrompt ==
    /\ pc = "build"
    /\ ~BuildPanic(config, file)
    /\ requestBody' = BuildRequestBody(config, stream, prompt, file)
    /\ prompt' = <<>>
    /\ pc' = "start"
    /\ UNCHANGED <<config, file, sent, stream, status, wire, pos, buffer, sink, result, exit,
                   docs, partial, cut, readErr, bodyErr>>

\* let body = self.build_request_body(&prompt)
BuildRequest ==
    /\ pc = "build"
    /\ ~BuildPanic(config, file)
    /\ requestBody' = BuildRequestBody(config, stream, prompt, file)
    /\ pc' = "start"
    /\ UNCHANGED <<config, file, prompt, sent, stream, status, wire, pos, buffer, sink, result,
                   exit, docs, partial, cut, readErr, bodyErr>>

\* std::fs::read(image_path).expect(..) on an Err: the panic ends the process
BuildPanics ==
    /\ pc = "build"
    /\ BuildPanic(config, file)
    /\ result' = Panic
    /\ exit' = 101
    /\ pc' = "exit"
    /\ UNCHANGED <<request, sent, stream, status, wire, pos, buffer, sink, docs, partial, cut,
                   readErr, bodyErr>>

(***************************************************************************)
(* do_completion: the request and the status of the response               *)
(***************************************************************************)

\* send().await? fails: the error goes to the caller
SendFails ==
    /\ pc = "start"
    /\ result' = Err("Send", 0, <<>>)
    /\ pc' = "main"
    /\ sent' = TRUE
    /\ UNCHANGED <<request, stream, status, wire, pos, buffer, sink, exit, docs, partial, cut, readErr,
                   bodyErr>>

\* a status error that leaves the body out
StatusErrorNoBody(st, body, readable) == Err("Status", st, <<>>)

\* the text of the error for a status that is no success: the status and the
\* body, or a placeholder when the body cannot be read
StatusError(st, body, readable) ==
    Err("Status", st, IF readable THEN body ELSE Unreadable)

StatusFailure ==
    /\ pc = "start"
    /\ ~IsSuccess(status)
    /\ \E readable \in BOOLEAN :
           /\ result' = StatusError(status, FromUtf8Lossy(wire), readable)
           /\ bodyErr' = ~readable
    /\ pc' = "main"
    /\ sent' = TRUE
    /\ UNCHANGED <<request, stream, status, wire, pos, buffer, sink, exit, docs, partial, cut, readErr>>

\* where a successful response is decoded
Decoder(streaming) == IF streaming THEN "await" ELSE "body"

StatusSuccess ==
    /\ pc = "start"
    /\ IsSuccess(status)
    /\ pc' = Decoder(stream)
    /\ sent' = TRUE
    /\ UNCHANGED <<request, stream, status, wire, pos, buffer, sink, result, exit, docs, partial, cut,
                   readErr, bodyErr>>

(***************************************************************************)
(* Both decoders: a document that is no Response                           *)
(***************************************************************************)

\* a decode error that never looks for the error envelope
ErrorForNoEnvelope(e, text) == Err("Json", 0, text)

\* a decode error that loses the raw text
ErrorForNoRaw(e, text) ==
    IF e.ok THEN Err("Api", e.code, e.message) ELSE Err("Json", 0, <<>>)

\* the error for a text that did not parse as a Response, given its parse as
\* an ErrorResponseContainer: the envelope's code and message, or the raw text
ErrorFor(e, text) ==
    IF e.ok THEN Err("Api", e.code, e.message) ELSE Err("Json", 0, text)

DecodeError(text) == ErrorFor(ErrorContainerFromStr(text), text)

(***************************************************************************)
(* process_non_streaming_response                                          *)
(***************************************************************************)

\* the callback's argument for the first choice
FirstChoiceText(c) ==
    IF c.kind = "NonChat" THEN c.text
    ELSE IF c.some THEN c.text ELSE <<>>

\* an outcome that takes the last choice for the first
OutcomeForLastChoice(r, text) ==
    IF r.ok
    THEN IF r.choices = <<>> THEN [calls |-> <<>>, result |-> Ok]
         ELSE IF r.choices[Len(r.choices)].kind = "Streaming"
              THEN [calls |-> <<>>, result |-> Panic]
         ELSE [calls |-> <<FirstChoiceText(r.choices[Len(r.choices)])>>, result |-> Ok]
    ELSE [calls |-> <<>>, result |-> DecodeError(text)]

\* the calls of the callback and the outcome for a body, given its parse as a
\* Response
OutcomeFor(r, text) ==
    IF r.ok
    THEN IF r.choices = <<>> THEN [calls |-> <<>>, result |-> Ok]
         ELSE IF r.choices[1].kind = "Streaming"
              THEN [calls |-> <<>>, result |-> Panic]
         ELSE [calls |-> <<FirstChoiceText(r.choices[1])>>, result |-> Ok]
    ELSE [calls |-> <<>>, result |-> DecodeError(text)]

NonStreamingOutcome(text) == OutcomeFor(ResponseFromStr(text), text)

\* the function ends with outcome o; a panic ends the process with status 101
Finish(o) ==
    /\ sink' = sink \o o.calls
    /\ result' = o.result
    /\ pc' = IF o.result.kind = "Panic" THEN "exit" ELSE "main"
    /\ exit' = IF o.result.kind = "Panic" THEN 101 ELSE exit

\* response.text().await? fails
ReadBodyFails ==
    /\ pc = "body"
    /\ result' = Err("Body", 0, <<>>)
    /\ bodyErr' = TRUE
    /\ pc' = "main"
    /\ UNCHANGED <<request, sent, stream, status, wire, pos, buffer, sink, exit, docs, partial, cut, readErr>>

\* the body is read and decoded
ProcessNonStreaming ==
    /\ pc = "body"
    /\ docs' = Append(docs, FromUtf8Lossy(wire))
    /\ Finish(NonStreamingOutcome(FromUtf8Lossy(wire)))
    /\ UNCHANGED <<request, sent, stream, status, wire, pos, buffer, partial, cut, readErr, bodyErr>>

(***************************************************************************)
(* process_streaming_response                                              *)
(***************************************************************************)

\* a line end that takes the end of the buffer for a newline
LineEndOrAll(buf) ==
    IF Find(buf, "\n") = 0 /\ buf # <<>> THEN Len(buf) + 1 ELSE Find(buf, "\n")

\* buffer.find('\n')
LineEnd(buf) == Find(buf, "\n")

\* buffer[..pos].trim()
Line(buf) == Trim(SubSeq(buf, 1, LineEnd(buf) - 1))

\* a remainder that keeps its leading whitespace
RestUntrimmed(buf) == SubSeq(buf, LineEnd(buf) + 1, Len(buf))

\* buffer[pos + 1..] and then trim_start
Rest(buf) == TrimStart(SubSeq(buf, LineEnd(buf) + 1, Len(buf)))

\* line.strip_prefix("data: ")
Payload(buf) == StripPrefix(Line(buf), DataPrefix)

\* json_str.trim() == "[DONE]"
IsDone(json) == Trim(json) = DoneSentinel

\* a call of the callback for every choice, with or without content
ChoiceCallsAlways(c) == <<c.text>>

\* the callback's arguments for one choice of a line
ChoiceCalls(c) ==
    IF c.kind = "NonChat" THEN <<c.text>>
    ELSE IF c.some THEN <<c.text>> ELSE <<>>

RECURSIVE Calls(_)
\* the callback's arguments for the choices of a line, in order
Calls(choices) ==
    IF choices = <<>> THEN <<>>
    ELSE ChoiceCalls(Head(choices)) \o Calls(Tail(choices))

\* chunk() hands over the next n bytes of the body, which are decoded and
\* appended to the buffer
ChunkArrives ==
    /\ pc = "await"
    /\ pos < Len(wire)
    /\ \E n \in 1..(Len(wire) - pos) :
           LET chunk == SubSeq(wire, pos + 1, pos + n)
           IN  /\ buffer' = buffer \o FromUtf8Lossy(chunk)
               /\ pos' = pos + n
               /\ cut' = (cut \/ chunk[n] = LeadByte \/ chunk[1] = ContByte)
    /\ pc' = "drain"
    /\ UNCHANGED <<request, sent, stream, status, wire, sink, result, exit, docs, partial, readErr, bodyErr>>

\* EndOfStream with the text left in the buffer reported as a line that does
\* not parse
EndOfStreamRejectsTail ==
    /\ pc = "await"
    /\ pos = Len(wire)
    /\ result' = IF buffer = <<>> THEN Ok ELSE DecodeError(buffer)
    /\ pc' = "main"
    /\ UNCHANGED <<request, sent, stream, status, wire, pos, buffer, sink, exit, docs, partial, cut,
                   readErr, bodyErr>>

\* chunk() returns Ok(None): the loop ends and the function returns Ok(())
EndOfStream ==
    /\ pc = "await"
    /\ pos = Len(wire)
    /\ result' = Ok
    /\ pc' = "main"
    /\ UNCHANGED <<request, sent, stream, status, wire, pos, buffer, sink, exit, docs, partial, cut, readErr,
                   bodyErr>>

\* the value returned when chunk() returns Err: `while let Ok(Some(chunk))`
\* ends the loop as it does at the end of the stream
AfterReadError == Ok

ChunkFails ==
    /\ pc = "await"
    /\ readErr' = TRUE
    /\ result' = AfterReadError
    /\ pc' = "main"
    /\ UNCHANGED <<request, sent, stream, status, wire, pos, buffer, sink, exit, docs, partial, cut, bodyErr>>

\* the buffer holds no newline: the inner loop ends
DrainEnds ==
    /\ pc = "drain"
    /\ LineEnd(buffer) = 0
    /\ pc' = "await"
    /\ partial' = (partial \/ buffer # <<>>)
    /\ UNCHANGED <<request, sent, stream, status, wire, pos, buffer, sink, result, exit, docs, cut, readErr, bodyErr>>

\* the line is empty: `continue`, with the buffer as it was
SkipEmptyLine ==
    /\ pc = "drain"
    /\ LineEnd(buffer) > 0
    /\ Line(buffer) = <<>>
    /\ UNCHANGED vars

\* the line does not start with "data: ": it is cut from the buffer
DiscardLine ==
    /\ pc = "drain"
    /\ LineEnd(buffer) > 0
    /\ Line(buffer) # <<>>
    /\ ~Payload(buffer).some
    /\ buffer' = Rest(buffer)
    /\ UNCHANGED <<request, sent, stream, status, wire, pc, pos, sink, result, exit, docs, partial, cut,
                   readErr, bodyErr>>

\* the sentinel treated as a line like any other: cut, and draining goes on
BreakOnDoneCutsLine ==
    /\ pc = "drain"
    /\ LineEnd(buffer) > 0
    /\ Line(buffer) # <<>>
    /\ Payload(buffer).some
    /\ IsDone(Payload(buffer).rest)
    /\ buffer' = Rest(buffer)
    /\ UNCHANGED <<request, sent, stream, status, wire, pc, pos, sink, result, exit, docs,
                   partial, cut, readErr, bodyErr>>

\* the payload is "[DONE]": `break`, with the buffer as it was
BreakOnDone ==
    /\ pc = "drain"
    /\ LineEnd(buffer) > 0
    /\ Line(buffer) # <<>>
    /\ Payload(buffer).some
    /\ IsDone(Payload(buffer).rest)
    /\ pc' = "await"
    /\ UNCHANGED <<request, sent, stream, status, wire, pos, buffer, sink, result, exit, docs, partial, cut,
                   readErr, bodyErr>>

\* the line is a payload line that is not the sentinel
IsPayloadLine(buf) ==
    /\ LineEnd(buf) > 0
    /\ Line(buf) # <<>>
    /\ Payload(buf).some
    /\ ~IsDone(Payload(buf).rest)

\* the payload json parsed as Response r: the callback gets the text of its
\* choices, and the line is cut from the buffer
Emit(r, json) ==
    /\ r.ok
    /\ docs' = Append(docs, json)
    /\ sink' = sink \o Calls(r.choices)
    /\ buffer' = Rest(buffer)
    /\ UNCHANGED <<pc, result>>

\* a document that did not parse is skipped and the next line is tried
FailSkipsLine(r, json) ==
    /\ ~r.ok
    /\ docs' = Append(docs, json)
    /\ buffer' = Rest(buffer)
    /\ UNCHANGED <<pc, result, sink>>

\* the payload json did not parse as a Response: the function returns the error
Fail(r, json) ==
    /\ ~r.ok
    /\ docs' = Append(docs, json)
    /\ result' = DecodeError(json)
    /\ pc' = "main"
    /\ UNCHANGED <<buffer, sink>>

\* serde_json::from_str::<Response>(json_str) and the arm of the match taken
Decode(json) ==
    \/ Emit(ResponseFromStr(json), json)
    \/ Fail(ResponseFromStr(json), json)

DecodePayload ==
    /\ pc = "drain"
    /\ IsPayloadLine(buffer)
    /\ Decode(Payload(buffer).rest)
    /\ UNCHANGED <<request, sent, stream, status, wire, pos, exit, partial, cut, readErr, bodyErr>>

(***************************************************************************)
(* main: the exit status                                                   *)
(***************************************************************************)

\* exit(1) for an Err, a normal return from main if not
ExitStatus(r) == IF r.kind = "Err" THEN 1 ELSE 0

MainReturns ==
    /\ pc = "main"
    /\ exit' = ExitStatus(result)
    /\ pc' = "exit"
    /\ UNCHANGED <<request, sent, stream, status, wire, pos, buffer, sink, result, docs, partial, cut, readErr,
                   bodyErr>>

Next ==
    \/ PromptGiven
    \/ ReadStdin
    \/ ReadStdinFails
    \/ BuildRequest
    \/ BuildPanics
    \/ SendFails
    \/ StatusFailure
    \/ StatusSuccess
    \/ ReadBodyFails
    \/ ProcessNonStreaming
    \/ ChunkArrives
    \/ EndOfStream
    \/ ChunkFails
    \/ DrainEnds
    \/ SkipEmptyLine
    \/ DiscardLine
    \/ BreakOnDone
    \/ DecodePayload
    \/ MainReturns

Spec == Init /\ [][Next]_vars

\* the request, up to the status of its response
BuildNext ==
    \/ PromptGiven
    \/ ReadStdin
    \/ ReadStdinFails
    \/ BuildRequest
    \/ BuildPanics
    \/ SendFails
    \/ StatusFailure
    \/ StatusSuccess
    \/ MainReturns

BuildSpec == BuildInit /\ [][BuildNext]_vars

\* the steps that parse no document
Steps ==
    \/ PromptGiven
    \/ ReadStdin
    \/ ReadStdinFails
    \/ BuildRequest
    \/ BuildPanics
    \/ SendFails
    \/ StatusFailure
    \/ StatusSuccess
    \/ ReadBodyFails
    \/ ChunkArrives
    \/ EndOfStream
    \/ ChunkFails
    \/ DrainEnds
    \/ SkipEmptyLine
    \/ DiscardLine
    \/ BreakOnDone
    \/ MainReturns

\* The program keeps running, and the transport answers every read: weak
\* fairness of every step.  For the two steps that parse a document, WF is
\* written out as []<>~ENABLED \/ []<>step with ENABLED replaced by the
\* guard of the step: both steps are enabled exactly when their guard holds,
\* and both change the state (they consume the line or append to docs).
LiveSpec ==
    /\ Spec
    /\ WF_vars(Steps)
    /\ ([]<>~(pc = "drain" /\ IsPayloadLine(buffer)) \/ []<><<DecodePayload>>_vars)
    /\ ([]<>(pc # "body") \/ []<><<ProcessNonStreaming>>_vars)

(***************************************************************************)
(* What the claims are stated against: the lines of the text the transport *)
(* has handed over, read off the wire independently of the buffer.         *)
(***************************************************************************)

\* the text of the body handed over so far
Delivered == FromUtf8Lossy(SubSeq(wire, 1, pos))

\* the k-th smallest element of a set of numbers
Kth(S, k) == CHOOSE i \in S : Cardinality({j \in S : j <= i}) = k

\* the newline-terminated lines of t, trimmed, in order
WireLines(t) ==
    LET nl == {i \in 1..Len(t) : t[i] = "\n"}
    IN  [k \in 1..Cardinality(nl) |->
            Trim(SubSeq(t, (IF k = 1 THEN 0 ELSE Kth(nl, k - 1)) + 1, Kth(nl, k) - 1))]

HasDataPrefix(l) == Len(l) >= 6 /\ SubSeq(l, 1, 6) = DataPrefix
AfterDataPrefix(l) == SubSeq(l, 7, Len(l))

\* the payloads of the complete lines of t that start with "data: ", in order
WirePayloads(t) ==
    LET ls == SelectSeq(WireLines(t), HasDataPrefix)
    IN  [k \in 1..Len(ls) |-> AfterDataPrefix(ls[k])]

\* the payloads that precede the first "[DONE]" payload
BeforeDone(ps) ==
    LET done == {k \in 1..Len(ps) : Trim(ps[k]) = DoneSentinel}
    IN  IF done = {} THEN ps ELSE SubSeq(ps, 1, Kth(done, 1) - 1)

IsPrefixOf(a, b) == Len(a) <= Len(b) /\ SubSeq(b, 1, Len(a)) = a

\* the fragments a choice contributes: a plain choice its text, a delta or a
\* full message its content when present
FragmentsOfChoice(c) ==
    IF c.kind = "NonChat" THEN <<c.text>>
    ELSE IF c.kind \in {"Streaming", "NonStreaming"} /\ c.some THEN <<c.text>>
    ELSE <<>>

RECURSIVE FragmentsOfChoices(_, _)
FragmentsOfChoices(cs, k) ==
    IF k > Len(cs) THEN <<>>
    ELSE FragmentsOfChoice(cs[k]) \o FragmentsOfChoices(cs, k + 1)

RECURSIVE FragmentsOfDocs(_, _)
\* the fragments of the documents ds[k], ds[k + 1], ..., in order; a document
\* that is no Response has none
FragmentsOfDocs(ds, k) ==
    IF k > Len(ds) THEN <<>>
    ELSE FragmentsOfChoices(ResponseFromStr(ds[k]).choices, 1) \o FragmentsOfDocs(ds, k + 1)

Returned == pc \in {"main", "exit"}

(***************************************************************************)
(* The claims                                                              *)
(***************************************************************************)

\* C1: when chunk boundaries fall between characters, a payload line ahead of
\* the sentinel is handed to the parser only once its newline has arrived:
\* the texts parsed are, in order and once each, complete payload lines of the
\* text delivered, and when the decoder awaits the next chunk every complete
\* payload line has been parsed and its fragments, and nothing else, emitted.
C1_SplitLineAssembled ==
    (stream /\ ~cut) =>
        /\ IsPrefixOf(docs, BeforeDone(WirePayloads(Delivered)))
        /\ pc = "await" =>
               /\ docs = BeforeDone(WirePayloads(Delivered))
               /\ sink = FragmentsOfDocs(BeforeDone(WirePayloads(Delivered)), 1)

\* C1 witness: "Hello" arrived split inside its line and was emitted whole
C1_Witness ==
    /\ wire = Stream.Hello
    /\ partial /\ ~cut
    /\ pos = Len(DataLine(Doc(ChoiceText.Hello)))
    /\ pc = "await"
    /\ sink = << <<"H", "e", "l", "l", "o">> >>

\* C2: every run returns from the decoder: the blank line is skipped and
\* draining goes on until the stream ends.
C2_Returns == <>(result # Pending)

\* C3: on the streaming path the calls of the sink are the fragments of the
\* documents parsed, line after line and choice after choice, and the
\* documents parsed are payload lines in wire order.
C3_SinkInOrder ==
    stream =>
        /\ sink = FragmentsOfDocs(docs, 1)
        /\ ~cut => IsPrefixOf(docs, WirePayloads(Delivered))

\* C3 witness: a line with a choice of every shape gave "", "b" and "c"
C3_Witness ==
    /\ wire = Stream.Choices
    /\ result = Ok
    /\ sink = << <<>>, <<"b">>, <<"c">> >>

\* C4: a failed read of a chunk makes the call, and the process, fail.
C4_ReadErrorFails ==
    (readErr /\ Returned) => (result.kind = "Err" /\ exit # 0)

\* C5: the decoder returns the API error exactly for the document that is no
\* Response and is an error envelope, with the envelope's code and message and
\* no fragment of that document; a Response is never an API error.
C5_ApiErrorIff ==
    /\ result.err = "Api" =>
           /\ docs # <<>>
           /\ result.code = ErrorContainerFromStr(docs[Len(docs)]).code
           /\ result.text = ErrorContainerFromStr(docs[Len(docs)]).message
           /\ sink = FragmentsOfDocs(SubSeq(docs, 1, Len(docs) - 1), 1)
    /\ \A k \in DOMAIN docs :
           (result.err = "Api" /\ k = Len(docs)) <=>
               (~ResponseFromStr(docs[k]).ok /\ ErrorContainerFromStr(docs[k]).ok)

\* C5 witness: the envelope of the spec, on the non-streaming path
C5_Witness ==
    /\ ~stream
    /\ wire = DocError
    /\ result.err = "Api" /\ result.code = 429
    /\ result.text = <<"r", "a", "t", "e", " ", "l", "i", "m", "i", "t", "e", "d">>
    /\ sink = <<>>

\* C6: a body whose first choice is a delta makes the non-streaming decoder
\* return an error, with no fragment, and the process is not ended by it.
C6_DeltaIsError ==
    (/\ ~stream
     /\ docs # <<>>
     /\ ResponseFromStr(docs[1]).ok
     /\ ResponseFromStr(docs[1]).choices # <<>>
     /\ ResponseFromStr(docs[1]).choices[1].kind = "Streaming")
        => (result.kind = "Err" /\ sink = <<>> /\ exit # 101)

\* the one call for a first choice c that is plain or a full message
FirstChoiceCall(c) ==
    IF c.kind = "NonChat" THEN c.text
    ELSE IF c.some THEN c.text ELSE <<>>

\* C7 as stated: on the non-streaming path a body that parses as a Response
\* gives no call and Ok when it has no choices, and otherwise exactly one
\* call, with the text of the first choice.
C7_ExactlyOnce ==
    (~stream /\ docs # <<>> /\ ResponseFromStr(FromUtf8Lossy(wire)).ok) =>
        IF ResponseFromStr(FromUtf8Lossy(wire)).choices = <<>>
        THEN sink = <<>> /\ result = Ok
        ELSE sink = <<FirstChoiceCall(ResponseFromStr(FromUtf8Lossy(wire)).choices[1])>>

\* what the amended C7 expects of a body that parsed as Response r
FirstChoiceOnly(r) ==
    IF r.choices = <<>> THEN sink = <<>> /\ result = Ok
    ELSE IF r.choices[1].kind \in {"NonChat", "NonStreaming"}
         THEN sink = <<FirstChoiceCall(r.choices[1])>> /\ result = Ok
    ELSE sink = <<>>

\* C7, amended: on the non-streaming path a body that parses as a Response
\* gives no call and Ok when it has no choices; one call, with the first
\* choice's text, and Ok when its first choice is plain or a full message;
\* and no call when its first choice is a delta.  There is never a second
\* call.
C7_FirstChoiceOnly ==
    ~stream =>
        /\ Len(sink) <= 1
        /\ (docs # <<>> /\ ResponseFromStr(FromUtf8Lossy(wire)).ok)
               => FirstChoiceOnly(ResponseFromStr(FromUtf8Lossy(wire)))

\* C7 witness: of the choices "a" and "b" only "a" reached the sink
C7_Witness ==
    /\ ~stream
    /\ wire = Doc(PayloadChoices(2))
    /\ result = Ok
    /\ sink = << <<"a">> >>

\* the line at the front of the buffer is complete, not empty and has no
\* "data: " prefix
NoiseAtFront ==
    /\ pc = "drain"
    /\ Find(buffer, "\n") > 0
    /\ Trim(SubSeq(buffer, 1, Find(buffer, "\n") - 1)) # <<>>
    /\ ~HasDataPrefix(Trim(SubSeq(buffer, 1, Find(buffer, "\n") - 1)))

\* C8: the step that meets such a line cuts it, and the whitespace after it,
\* from the buffer, calls no sink, returns nothing and goes on draining.
C8_NoiseDiscarded ==
    [][NoiseAtFront =>
          /\ buffer' = TrimStart(SubSeq(buffer, Find(buffer, "\n") + 1, Len(buffer)))
          /\ sink' = sink
          /\ result' = result
          /\ docs' = docs
          /\ pc' = "drain"]_vars

\* C8 witness: the payload line after the comment line was emitted
C8_Witness ==
    /\ wire = Stream.KeepAlive
    /\ result = Ok
    /\ docs = <<Doc(ChoiceText.A)>>
    /\ sink = << <<"a">> >>

\* C9: the parse error is returned exactly for the document that is neither a
\* Response nor an error envelope; it carries the text that was parsed, which
\* is the whole body or the payload of the line, and the document gives no
\* fragment.
C9_MalformedKeepsRaw ==
    /\ result.err = "Json" =>
           /\ docs # <<>>
           /\ result.text = docs[Len(docs)]
           /\ ~stream => result.text = FromUtf8Lossy(wire)
           /\ (stream /\ ~cut) => result.text = WirePayloads(Delivered)[Len(docs)]
           /\ sink = FragmentsOfDocs(SubSeq(docs, 1, Len(docs) - 1), 1)
    /\ \A k \in DOMAIN docs :
           (result.err = "Json" /\ k = Len(docs)) <=>
               (~ResponseFromStr(docs[k]).ok /\ ~ErrorContainerFromStr(docs[k]).ok)

\* C9 witness: the second line of the stream was {"x":1}
C9_Witness ==
    /\ wire = Stream.Other
    /\ result.err = "Json"
    /\ result.text = DocOther
    /\ sink = << <<"b">> >>

\* the response's status is no success and do_completion got it and returned
StatusFailed ==
    /\ ~(status >= 200 /\ status <= 299)
    /\ Returned
    /\ sent
    /\ result.err # "Send"

\* the decoders were never entered
NoDecoding == pos = 0 /\ buffer = <<>> /\ docs = <<>> /\ sink = <<>>

\* C10 as stated: the error carries the status and the raw body text.
C10_CarriesBody ==
    /\ ~(status >= 200 /\ status <= 299) => (pc \in {"prompt", "build", "start", "main", "exit"} /\ NoDecoding)
    /\ StatusFailed => result = Err("Status", status, FromUtf8Lossy(wire))

\* C10, amended: the error carries the status and the raw body text, or the
\* text "Unable to read response body" when the body could not be read.
C10_CarriesBodyOrPlaceholder ==
    /\ ~(status >= 200 /\ status <= 299) => (pc \in {"prompt", "build", "start", "main", "exit"} /\ NoDecoding)
    /\ StatusFailed =>
           result = Err("Status", status, IF bodyErr THEN Unreadable ELSE FromUtf8Lossy(wire))

\* C10 witness: a streaming request answered 429 with a readable body
C10_Witness ==
    /\ stream
    /\ status = 429
    /\ wire = Stream.Hello
    /\ ~bodyErr
    /\ result = Err("Status", 429, Stream.Hello)
    /\ exit = 1


(***************************************************************************)
(* The request builder                                                     *)
(***************************************************************************)

\* the file extension of a path, as Path::extension gives it: the text after
\* the last "." of the last component, none when that component has no "."
\* past its first character
Extension(path) ==
    LET slashes == {i \in 1..Len(path) : path[i] = "/"}
        from == IF slashes = {} THEN 1 ELSE Kth(slashes, Cardinality(slashes)) + 1
        dots == {i \in (from + 1)..Len(path) : path[i] = "."}
    IN  IF dots = {} THEN None
        ELSE Some(SubSeq(path, Kth(dots, Cardinality(dots)) + 1, Len(path)))

\* the MIME type the closed mapping gives a path, none for any other path
MimeOfPath(path) ==
    IF Extension(path) \in {Some(Literal.Jpg), Some(Literal.Jpeg)} THEN Some(Literal.ImageJpeg)
    ELSE IF Extension(path) = Some(Literal.Png) THEN Some(Literal.ImagePng)
    ELSE IF Extension(path) = Some(Literal.Webp) THEN Some(Literal.ImageWebp)
    ELSE None

\* the request has an image reference that is a local path, in chat mode
LocalImage == ~config.plain /\ config.image_file.some /\ ~UrlParses(config.image_file.v)

\* build_request_body was called and do_completion is over
BuildOver == pc \in {"main", "exit"} /\ result.err # "Stdin"

\* C11: in chat mode with a local image path whose extension has a MIME type,
\* a file that cannot be read makes do_completion return an error, and no
\* request is sent.
C11_ImageReadErrorReturned ==
    (LocalImage /\ MimeOfPath(config.image_file.v).some /\ ~file.ok /\ BuildOver)
        => (result.kind = "Err" /\ ~sent)

\* build_request_body has returned the body
Built == requestBody # JNull

HasKey(obj, k) == \E i \in DOMAIN obj.m : obj.m[i].k = k

\* the messages of the built body
BuiltMessages == Field(requestBody.m, BodyKey.messages).a

\* C12: a plain request has the key prompt and not messages, a chat request
\* messages and not prompt; messages has one element, two with an image
\* reference, and its last element is the user message with the prompt.
C12_PromptOrMessages ==
    Built =>
        IF config.plain
        THEN HasKey(requestBody, BodyKey.prompt) /\ ~HasKey(requestBody, BodyKey.messages)
        ELSE /\ HasKey(requestBody, BodyKey.messages) /\ ~HasKey(requestBody, BodyKey.prompt)
             /\ Count(requestBody.m, BodyKey.messages) = 1
             /\ Len(BuiltMessages) = IF config.image_file.some THEN 2 ELSE 1
             /\ LET last == BuiltMessages[Len(BuiltMessages)]
                IN  /\ last.t = "obj"
                    /\ Count(last.m, Key.role) = 1 /\ Field(last.m, Key.role) = JStr(Literal.UserRole)
                    /\ Count(last.m, Key.content) = 1 /\ Field(last.m, Key.content) = JStr(prompt)

\* C12 witness: a chat request with an image URL has two messages, and a
\* prompt read from stdin is the content of the second
C12_Witness ==
    /\ Built
    /\ ~config.plain
    /\ config.image_file = Some(Ref.Url)
    /\ ~config.prompt.some
    /\ Len(BuiltMessages) = 2
    /\ Field(BuiltMessages[2].m, Key.content) = JStr(StdinText)

\* the payload has the key k exactly when the integer parameter is set, and
\* then once, with the number supplied
IntegerKey(k, option) ==
    IF option.some
    THEN Count(requestBody.m, k) = 1 /\ Field(requestBody.m, k) = [t |-> "num", n |-> option.v]
    ELSE ~HasKey(requestBody, k)

\* the same for an f32 parameter: the value of the key is the number supplied
FloatKey(k, option) ==
    IF option.some
    THEN /\ Count(requestBody.m, k) = 1
         /\ Field(requestBody.m, k).t = "num"
         /\ option.v.finite
         /\ Field(requestBody.m, k).n = option.v.n
    ELSE ~HasKey(requestBody, k)

\* C13: the built payload has the key of a sampling parameter exactly when
\* the parameter is set, and then with the value supplied, never null.
C13_SetParametersOnly ==
    Built =>
        /\ IntegerKey(BodyKey.max_tokens, config.max_tokens)
        /\ FloatKey(BodyKey.temperature, config.temp)
        /\ IntegerKey(BodyKey.top_k, config.top_k)
        /\ FloatKey(BodyKey.top_p, config.top_p)
        /\ FloatKey(BodyKey.min_p, config.min_p)
        /\ FloatKey(BodyKey.repetition_penalty, config.rep_pen)
        /\ IntegerKey(BodyKey.seed, config.seed)

RECURSIVE Base64Decode(_)
\* the bytes of a base64 text in groups of four characters, the last group
\* padded with "="
Base64Decode(t) ==
    IF t = <<>> THEN <<>>
    ELSE LET v(i) == (CHOOSE n \in 0..63 : Base64Alphabet[n + 1] = t[i])
             b1 == v(1) * 4 + v(2) \div 16
         IN  IF t[3] = "=" THEN <<b1>>
             ELSE IF t[4] = "=" THEN <<b1, (v(2) % 16) * 16 + v(3) \div 4>>
             ELSE <<b1, (v(2) % 16) * 16 + v(3) \div 4, (v(3) % 4) * 64 + v(4)>>
                      \o Base64Decode(SubSeq(t, 5, Len(t)))

\* the url of the image message of the built body
BuiltImageUrl ==
    Field(Field(Field(BuiltMessages[1].m, Key.content).a[1].m, BodyKey.image_url).m, BodyKey.url).s

\* t is data:<mime>;base64,<the base64 of bytes>
IsDataUri(t, mime, bytes) ==
    LET head == Literal.DataScheme \o mime \o Literal.Base64Mark
    IN  /\ IsPrefixOf(head, t)
        /\ (Len(t) - Len(head)) % 4 = 0
        /\ \A i \in (Len(head) + 1)..Len(t) :
               \/ \E n \in 1..64 : Base64Alphabet[n] = t[i]
               \/ t[i] = "=" /\ i >= Len(t) - 1
        /\ Base64Decode(SubSeq(t, Len(head) + 1, Len(t))) = bytes

\* C14: in chat mode an image reference that parses as a URL is embedded as
\* it is; a path whose file extension is jpg, jpeg, png or webp gives the
\* data URI of the file's bytes; any other path gives the empty string, reads
\* no file and raises no error.
C14_DataUriOrEmpty ==
    /\ (Built /\ ~config.plain /\ config.image_file.some) =>
           IF UrlParses(config.image_file.v) THEN BuiltImageUrl = config.image_file.v
           ELSE IF MimeOfPath(config.image_file.v).some
                THEN IsDataUri(BuiltImageUrl, MimeOfPath(config.image_file.v).v, file.bytes)
           ELSE BuiltImageUrl = <<>> /\ ~ReadsFile(config, file)
    /\ (LocalImage /\ ~MimeOfPath(config.image_file.v).some /\ BuildOver) => result.kind # "Panic"

C16_NoLineAtRest ==
    (stream /\ pc = "await") => Find(buffer, "\n") = 0

\* the line at the front of the buffer is complete and its payload is the
\* sentinel
DoneAtFront ==
    /\ stream
    /\ Find(buffer, "\n") > 0
    /\ HasDataPrefix(Trim(SubSeq(buffer, 1, Find(buffer, "\n") - 1)))
    /\ Trim(AfterDataPrefix(Trim(SubSeq(buffer, 1, Find(buffer, "\n") - 1)))) = DoneSentinel

\* C17: from the sentinel on, no step calls the sink or parses a line, the
\* sentinel stays where it is whatever arrives, no step returns an error, and
\* the call, when it returns, returns Ok.
C17_SilentAfterDone ==
    [][DoneAtFront =>
          /\ DoneAtFront'
          /\ sink' = sink
          /\ docs' = docs
          /\ result' \in {Pending, Ok}
          /\ pc' \in {"main", "exit"} => result' = Ok]_vars

\* C17 witness: the stream ended and the call returned Ok with the one
\* fragment that preceded the sentinel, the envelope after it unread
C17_Witness ==
    /\ wire = Stream.DoneThenError
    /\ pos = Len(wire)
    /\ ~readErr
    /\ DoneAtFront
    /\ docs = <<Doc(ChoiceText.A)>>
    /\ sink = << <<"a">> >>
    /\ result = Ok
    /\ exit = 0

\* the streaming decoder returned a decode error
DecodeFailed == stream /\ result.err \in {"Api", "Json"}

\* a document that did not parse is the last one parsed and has made the call
\* return the error; then every document before it parsed, the sink holds
\* their fragments and nothing else, and they are the payload lines that
\* precede the failing one on the wire
FailsAtLine ==
    /\ \A k \in DOMAIN docs :
           ~ResponseFromStr(docs[k]).ok => (DecodeFailed /\ k = Len(docs) /\ Returned)
    /\ DecodeFailed =>
           /\ docs # <<>>
           /\ ~ResponseFromStr(docs[Len(docs)]).ok
           /\ sink = FragmentsOfDocs(SubSeq(docs, 1, Len(docs) - 1), 1)
           /\ ~cut => docs = SubSeq(WirePayloads(Delivered), 1, Len(docs))

\* C18: on the streaming path a payload line that does not parse as a
\* Response makes the call return an error at that line, with the fragments
\* of the lines before it and none of its own, and after it no chunk is
\* read, no line parsed and no fragment emitted.
C18_ErrorStopsStream ==
    /\ [](stream => FailsAtLine)
    /\ [][DecodeFailed =>
             (pos' = pos /\ buffer' = buffer /\ docs' = docs /\ sink' = sink
                 /\ result' = result)]_vars

\* C18 witness: the envelope on the second line ended the call before the
\* third line was read, with the fragment of the first
C18_Witness ==
    /\ wire = Stream.ApiError
    /\ DecodeFailed
    /\ pos = Len(DataLine(Doc(ChoiceText.A))) + Len(DataLine(DocError))
    /\ pc = "exit"
    /\ exit = 1
    /\ sink = << <<"a">> >>

(***************************************************************************)
(* Chunking                                                                *)
(***************************************************************************)

\* the outcome of a call that never returns
Hangs == [kind |-> "Hangs", err |-> "", code |-> 0, text |-> <<>>]

RECURSIVE OneChunk(_, _)
\* what the streaming decoder does with the text buf when it arrives in one
\* chunk and the stream ends after it, calls being the sink calls so far: the
\* calls made and the outcome, the value returned or Hangs when the drain
\* loop never ends
OneChunk(buf, calls) ==
    IF LineEnd(buf) = 0 THEN [calls |-> calls, outcome |-> Ok]
    ELSE IF Line(buf) = <<>> THEN [calls |-> calls, outcome |-> Hangs]
    ELSE IF ~Payload(buf).some THEN OneChunk(Rest(buf), calls)
    ELSE IF IsDone(Payload(buf).rest) THEN [calls |-> calls, outcome |-> Ok]
    ELSE IF ResponseFromStr(Payload(buf).rest).ok
         THEN OneChunk(Rest(buf), calls \o Calls(ResponseFromStr(Payload(buf).rest).choices))
    ELSE [calls |-> calls, outcome |-> DecodeError(Payload(buf).rest)]

\* the drain loop is at an empty line, which it never leaves
Spinning == pc = "drain" /\ LineEnd(buffer) > 0 /\ Line(buffer) = <<>>

\* the streaming decoder has returned
DecoderReturned == stream /\ sent /\ IsSuccess(status) /\ Returned /\ result.err # "Send"

\* C19: however the body is split into chunks at character boundaries, the
\* streaming decoder does what it does with the body in one chunk: it does
\* not return where that run returns only, and when it returns it has made
\* the same sink calls and returns the same value.
C19_ChunkingIrrelevant ==
    (stream /\ ~cut /\ ~readErr) =>
        /\ Spinning => OneChunk(FromUtf8Lossy(wire), <<>>).outcome = Hangs
        /\ DecoderReturned =>
               /\ OneChunk(FromUtf8Lossy(wire), <<>>).outcome = result
               /\ OneChunk(FromUtf8Lossy(wire), <<>>).calls = sink

(***************************************************************************)
(* The shapes of a choice                                                  *)
(***************************************************************************)

\* the elements of the choices array of the JSON text doc, as written
ChoiceObjects(doc) ==
    LET j == FromStr(doc)
    IN  IF /\ j.ok
           /\ j.v.t = "obj"
           /\ Count(j.v.m, Key.choices) = 1
           /\ Field(j.v.m, Key.choices).t = "arr"
        THEN Field(j.v.m, Key.choices).a
        ELSE <<>>

\* the three shapes by field presence: text present; message with role
\* present; delta present
PlainShape(c) == c.t = "obj" /\ Count(c.m, Key.text) >= 1
MessageShape(c) ==
    /\ c.t = "obj"
    /\ Count(c.m, Key.message) = 1
    /\ Field(c.m, Key.message).t = "obj"
    /\ Count(Field(c.m, Key.message).m, Key.role) >= 1
DeltaShape(c) == c.t = "obj" /\ Count(c.m, Key.delta) >= 1

\* how many of the three shapes match c
ShapeCount(c) ==
    (IF PlainShape(c) THEN 1 ELSE 0) + (IF MessageShape(c) THEN 1 ELSE 0)
        + (IF DeltaShape(c) THEN 1 ELSE 0)

\* the first shape that matches c in the order plain, full message, delta
FirstShape(c) ==
    IF PlainShape(c) THEN "NonChat"
    ELSE IF MessageShape(c) THEN "NonStreaming"
    ELSE IF DeltaShape(c) THEN "Streaming"
    ELSE "None"

HasTail == buffer # <<>> /\ buffer[Len(buffer)] # "\n"

\* the documents parsed are payloads of lines whose newline has arrived
OnlyCompleteLines ==
    /\ Len(docs) <= Len(WirePayloads(Delivered))
    /\ ~cut => IsPrefixOf(docs, WirePayloads(Delivered))

\* C21: when the stream ends while the buffer ends with text that no newline
\* follows, the streaming decoder returns Ok and the process exits with 0;
\* that text is not parsed and gives no fragment, at the end of the stream,
\* before it or after it.
C21_TailDiscarded ==
    /\ [](stream =>
             /\ OnlyCompleteLines
             /\ (HasTail /\ pc = "exit" /\ result = Ok) => exit = 0)
    /\ [][(stream /\ pc = "await" /\ pos = Len(wire) /\ HasTail /\ ~readErr') =>
             (result' = Ok /\ pc' = "main" /\ sink' = sink /\ docs' = docs
                 /\ buffer' = buffer)]_vars
    /\ [][(stream /\ Returned) =>
             (sink' = sink /\ docs' = docs /\ result' = result)]_vars

\* C21 witness: the stream ended after a payload line without its newline,
\* which is still in the buffer; the line before it gave "b", and the call
\* returned Ok
C21_Witness ==
    /\ wire = Stream.NoNewline
    /\ pos = Len(wire)
    /\ ~readErr
    /\ buffer = DataPrefix \o Doc(ChoiceText.A)
    /\ docs = <<Doc(ChoiceText.B)>>
    /\ sink = << <<"b">> >>
    /\ result = Ok
    /\ pc = "exit"
    /\ exit = 0

(***************************************************************************)
(* A character split across chunks                                         *)
(***************************************************************************)

\* C22: when a chunk boundary has fallen inside the two-byte character of a
\* payload line, the streaming decoder, once it has returned, has made the
\* sink calls and returns the value of the run in which the body arrives in
\* one chunk.
C22_SplitCharacterIntact ==
    (cut /\ ~readErr /\ DecoderReturned) =>
        /\ OneChunk(FromUtf8Lossy(wire), <<>>).calls = sink
        /\ OneChunk(FromUtf8Lossy(wire), <<>>).outcome = result
====
